---- MODULE Spec2Model ----
(***************************************************************************)
(* Linux bzImage loader and executor (arch/i386/image/bzimage.c).          *)
(*                                                                         *)
(* bzimage_load and bzimage_exec are modelled as atomic operations over    *)
(* the image object, the initrd image, physical memory (an interval map of *)
(* symbolic contents) and a log of the primitive calls (prep_segment,      *)
(* copies, shutdown, jump) that the last operation made.                   *)
(***************************************************************************)
EXTENDS Integers, Naturals, Sequences, FiniteSets, TLC

VARIABLES image, initrd, memmap, mem, memPre, log, ret, cpu, state,
          hdrIn, hdrOut, cmdIn, cmdOut, search

vars == <<image, initrd, memmap, mem, memPre, log, ret, cpu, state,
          hdrIn, hdrOut, cmdIn, cmdOut, search>>

mainVars == <<image, initrd, memmap, mem, memPre, log, ret, cpu, state>>

(***************************************************************************)
(* Constants of bzimage.h                                                  *)
(***************************************************************************)
BZI_HDR_OFFSET == \h1f1
BZI_SIGNATURE == "HdrS"
BZI_LOADER_TYPE_ETHERBOOT == \h40
BZI_LOAD_HIGH == 1
BZI_CAN_USE_HEAP == \h80
BZI_LOAD_HIGH_ADDR == \h100000
BZI_LOAD_LOW_ADDR == \h10000
BZI_INITRD_MAX == \h37ffffff
BZI_CMDLINE_MAGIC == \ha33f
BZI_CMDLINE_OFFSET == \h20
BZI_STACK_SIZE == \h1000
BZI_CMDLINE_SIZE == \h100
BZI_VID_MODE_NORMAL == \hffff
BZI_VID_MODE_EXT == \hfffe
BZI_VID_MODE_ASK == \hfffd
\* sizeof ( struct bzimage_header ): packed, setup_sects at 0x1f1 up to and
\* including initrd_addr_max at 0x22c
SizeofBzhdr == \h3f
\* sizeof ( struct bzimage_cmdline ): two 16-bit words
SizeofBzCmdline == 4

MiB == \h100000

(***************************************************************************)
(* Fixed-width unsigned arithmetic.  A wide number is four 16-bit limbs,   *)
(* least significant first: 64 bits (uint64_t); a 32-bit value (unsigned   *)
(* long, physaddr_t, uint32_t on i386) has its two upper limbs zero.       *)
(***************************************************************************)
B16 == 2^16

\* n is below 2^31
W(n) == <<n % B16, n \div B16, 0, 0>>

WHex(hi16, lo16) == <<lo16, hi16, 0, 0>>

WAdd(a, b) ==
    LET s1 == a[1] + b[1]
        s2 == a[2] + b[2] + (s1 \div B16)
        s3 == a[3] + b[3] + (s2 \div B16)
        s4 == a[4] + b[4] + (s3 \div B16)
    IN  <<s1 % B16, s2 % B16, s3 % B16, s4 % B16>>

\* a * k modulo 2^64, for a small factor k (k < 2^15)
WMul(a, k) ==
    LET p1 == a[1] * k
        p2 == a[2] * k + (p1 \div B16)
        p3 == a[3] * k + (p2 \div B16)
        p4 == a[4] * k + (p3 \div B16)
    IN  <<p1 % B16, p2 % B16, p3 % B16, p4 % B16>>

\* truncation to 32 bits
U32(a) == <<a[1], a[2], 0, 0>>

WLt(a, b) ==
    \/ a[4] < b[4]
    \/ a[4] = b[4] /\ a[3] < b[3]
    \/ a[4] = b[4] /\ a[3] = b[3] /\ a[2] < b[2]
    \/ a[4] = b[4] /\ a[3] = b[3] /\ a[2] = b[2] /\ a[1] < b[1]

WLe(a, b) == a = b \/ WLt(a, b)

\* the wide numbers that fit a model integer
WFits(a) == a[4] = 0 /\ a[3] = 0 /\ a[2] < 2^15

WVal(a) == a[2] * B16 + a[1]

(***************************************************************************)
(* struct bzimage_header, and the image object                             *)
(***************************************************************************)
\* a header whose bytes are all zero
ZeroHdr ==
    [setup_sects |-> 0, vid_mode |-> 0, boot_flag |-> 0, header |-> "0000",
     version |-> 0, type_of_loader |-> 0, loadflags |-> 0,
     setup_move_size |-> 0, code32_start |-> 0, ramdisk_image |-> 0,
     ramdisk_size |-> 0, heap_end_ptr |-> 0, cmd_line_ptr |-> 0,
     initrd_addr_max |-> W(0)]

\* image->cmdline is a string (a sequence of characters) or NULL
NULL == <<"NULL">>

NUL == "\\0"

ZeroLoadCtx ==
    [rm_kernel_seg |-> 0, rm_kernel |-> 0, rm_filesz |-> 0, rm_heap |-> 0,
     rm_cmdline |-> 0, rm_memsz |-> 0, pm_kernel |-> 0, pm_sz |-> 0]

ZeroExecCtx ==
    [rm_kernel_seg |-> 0, rm_kernel |-> 0, rm_heap |-> 0, rm_cmdline |-> 0,
     vid_mode |-> W(0), mem_limit |-> W(0), ramdisk_image |-> 0,
     ramdisk_size |-> 0]

\* real_to_user ( segment, offset ) as a physical address
real_to_user(seg, off) == seg * 16 + off

(***************************************************************************)
(* Physical memory: a set of disjoint extents [lo, hi) of known content.   *)
(* The content of an extent is symbolic: byte a of the extent is byte      *)
(* (a - base) of its source (zero fill, the kernel image file, the initrd  *)
(* file, an encoded header, a command line, a command-line side-record).   *)
(***************************************************************************)
Src(kind, hdr, str, side) ==
    [kind |-> kind, hdr |-> hdr, str |-> str, side |-> side]

SrcZero == Src("zero", ZeroHdr, <<>>, <<0, 0>>)
SrcImage == Src("image", ZeroHdr, <<>>, <<0, 0>>)
SrcInitrd == Src("initrd", ZeroHdr, <<>>, <<0, 0>>)
SrcHdr(h) == Src("hdr", h, <<>>, <<0, 0>>)
SrcStr(s) == Src("str", ZeroHdr, s, <<0, 0>>)
SrcSide(magic, offset) == Src("side", ZeroHdr, <<>>, <<magic, offset>>)

MemCut(e, lo, hi) ==
    (IF e.lo < lo
        THEN {[e EXCEPT !.hi = IF e.hi < lo THEN e.hi ELSE lo]}
        ELSE {})
    \cup
    (IF e.hi > hi
        THEN {[e EXCEPT !.lo = IF e.lo > hi THEN e.lo ELSE hi]}
        ELSE {})

\* store the bytes of src at [lo, hi); byte lo is byte (lo - base) of src
MemWrite(m, lo, hi, src, base) ==
    IF hi <= lo
        THEN m
        ELSE UNION { MemCut(e, lo, hi) : e \in m }
             \cup {[lo |-> lo, hi |-> hi, src |-> src,
                    base |-> IF src.kind = "zero" THEN 0 ELSE base]}

Unwritten == [src |-> Src("unwritten", ZeroHdr, <<>>, <<0, 0>>), off |-> 0]

\* A byte of a string is the character itself, and its NUL is a zero byte.
ByteAt(m, a) ==
    IF \E e \in m : e.lo <= a /\ a < e.hi
        THEN LET e == CHOOSE e \in m : e.lo <= a /\ a < e.hi
             IN  IF e.src.kind = "zero" THEN [src |-> e.src, off |-> 0]
                 ELSE IF e.src.kind # "str"
                     THEN [src |-> e.src, off |-> a - e.base]
                 ELSE IF e.src.str[a - e.base + 1] = NUL
                     THEN [src |-> SrcZero, off |-> 0]
                 ELSE [src |-> SrcStr(<<e.src.str[a - e.base + 1]>>),
                       off |-> 0]
        ELSE Unwritten

\* The bytes of [lo, hi) are the same in m1 and in m2: they are compared
\* at the start of the range, at every extent boundary and at every byte of
\* a string.  (Two encoded headers count as the same bytes only when the
\* headers are equal.)
MemSame(m1, m2, lo, hi) ==
    LET all == m1 \cup m2
        pts == {lo} \cup { e.lo : e \in all } \cup { e.hi : e \in all }
               \cup UNION { e.lo .. (e.hi - 1) :
                              e \in { x \in all : x.src.kind = "str" } }
    IN  \A a \in pts : (lo <= a /\ a < hi) => ByteAt(m1, a) = ByteAt(m2, a)

\* copy_from_user ( &bzhdr, ..., sizeof ( bzhdr ) ) at physical address a
ReadHdr(m, a, img) ==
    LET b == ByteAt(m, a)
        whole == \E e \in m : e.lo <= a /\ a + SizeofBzhdr <= e.hi
    IN  IF whole /\ b.src.kind = "hdr" /\ b.off = 0 THEN b.src.hdr
        ELSE IF whole /\ b.src.kind = "image" /\ b.off = BZI_HDR_OFFSET
            THEN img.hdr
        ELSE IF whole /\ b.src.kind = "zero" THEN ZeroHdr
        ELSE [ZeroHdr EXCEPT !.header = "????"]

(***************************************************************************)
(* The log of the primitive calls of one operation                         *)
(***************************************************************************)
EvPrep(what, lo, hi, rc) ==
    [op |-> "prep", what |-> what, lo |-> lo, hi |-> hi, rc |-> rc]
EvWrite(what, lo, hi) ==
    [op |-> "write", what |-> what, lo |-> lo, hi |-> hi, rc |-> "OK"]
EvShutdown ==
    [op |-> "shutdown", what |-> "", lo |-> 0, hi |-> 0, rc |-> "OK"]
EvJump ==
    [op |-> "jump", what |-> "", lo |-> 0, hi |-> 0, rc |-> "OK"]

\* prep_segment ( segment, filesz, memsz ): the range must lie in one usable
\* region of the memory map; the range beyond filesz is cleared
PrepOk(mm, addr, memsz) ==
    \E r \in mm : r.lo <= addr /\ addr + memsz <= r.hi

prep_segment(mm, m, what, addr, filesz, memsz) ==
    IF PrepOk(mm, addr, memsz)
        THEN [rc |-> "OK",
              mem |-> MemWrite(m, addr + filesz, addr + memsz, SrcZero, 0),
              ev |-> EvPrep(what, addr, addr + memsz, "OK")]
        ELSE [rc |-> "ERANGE", mem |-> m,
              ev |-> EvPrep(what, addr, addr + memsz, "ERANGE")]

(***************************************************************************)
(* bzimage_load and its steps                                              *)
(***************************************************************************)
\* (a variant that takes the larger of setup_sects and 4)
RmFilesz_Max(setup_sects) ==
    ((IF setup_sects > 4 THEN setup_sects ELSE 4) + 1) * 512

\* ( ( bzhdr->setup_sects ? bzhdr->setup_sects : 4 ) + 1 ) << 9
RmFilesz(setup_sects) ==
    ((IF setup_sects # 0 THEN setup_sects ELSE 4) + 1) * 512

\* The load addresses and sizes that bzimage_load_header computes once the
\* header has passed its checks
HeaderSizes(img) ==
    LET rm == [ZeroLoadCtx EXCEPT
                  !.rm_kernel_seg = \h1000,
                  !.rm_kernel = real_to_user(\h1000, 0),
                  !.rm_filesz = RmFilesz(img.hdr.setup_sects),
                  !.rm_memsz = RmFilesz(img.hdr.setup_sects)]
    IN  IF rm.rm_filesz > img.len
            THEN [rc |-> "ENOEXEC", load_ctx |-> rm, bzhdr |-> img.hdr,
                  hdrRead |-> TRUE]
            ELSE [rc |-> "OK",
                  load_ctx |-> [rm EXCEPT
                      !.pm_kernel =
                          IF img.hdr.loadflags % 2 = BZI_LOAD_HIGH
                              THEN BZI_LOAD_HIGH_ADDR
                              ELSE BZI_LOAD_LOW_ADDR,
                      !.pm_sz = img.len - rm.rm_filesz],
                  bzhdr |-> img.hdr, hdrRead |-> TRUE]

\* (a variant that tests the version before the signature)
bzimage_load_header_VersionFirst(img) ==
    IF img.len < BZI_HDR_OFFSET + SizeofBzhdr
        THEN [rc |-> "ENOEXEC", load_ctx |-> ZeroLoadCtx, bzhdr |-> ZeroHdr,
              hdrRead |-> FALSE]
    ELSE IF img.hdr.version < \h0200
        THEN [rc |-> "ENOTSUP", load_ctx |-> ZeroLoadCtx, bzhdr |-> img.hdr,
              hdrRead |-> TRUE]
    ELSE IF img.hdr.header # BZI_SIGNATURE
        THEN [rc |-> "ENOEXEC", load_ctx |-> ZeroLoadCtx, bzhdr |-> img.hdr,
              hdrRead |-> TRUE]
    ELSE HeaderSizes(img)

\* Returns the status, the load context and the decoded header; bzhdr is
\* not read (hdrRead is FALSE) when the image is too short for it.
bzimage_load_header(img) ==
    IF img.len < BZI_HDR_OFFSET + SizeofBzhdr
        THEN [rc |-> "ENOEXEC", load_ctx |-> ZeroLoadCtx, bzhdr |-> ZeroHdr,
              hdrRead |-> FALSE]
    ELSE IF img.hdr.header # BZI_SIGNATURE
        THEN [rc |-> "ENOEXEC", load_ctx |-> ZeroLoadCtx, bzhdr |-> img.hdr,
              hdrRead |-> TRUE]
    ELSE IF img.hdr.version < \h0200
        THEN [rc |-> "ENOTSUP", load_ctx |-> ZeroLoadCtx, bzhdr |-> img.hdr,
              hdrRead |-> TRUE]
    ELSE HeaderSizes(img)

\* The operations below take and return the machine state that a call
\* threads through its steps: s.mem (physical memory), s.log (the primitive
\* calls so far) and the context under construction.
bzimage_load_real(mm, s) ==
    LET c1 == [s.load_ctx EXCEPT
                  !.rm_memsz = @ + BZI_STACK_SIZE + BZI_CMDLINE_SIZE,
                  !.rm_heap = s.load_ctx.rm_memsz + BZI_STACK_SIZE,
                  !.rm_cmdline = s.load_ctx.rm_memsz + BZI_STACK_SIZE]
        p == prep_segment(mm, s.mem, "rm", c1.rm_kernel, c1.rm_filesz,
                          c1.rm_memsz)
    IN  IF p.rc # "OK"
            THEN [s EXCEPT !.rc = p.rc, !.load_ctx = c1,
                           !.log = Append(@, p.ev)]
            ELSE [s EXCEPT
                    !.load_ctx = c1,
                    !.mem = MemWrite(p.mem, c1.rm_kernel,
                                     c1.rm_kernel + c1.rm_filesz,
                                     SrcImage, c1.rm_kernel),
                    !.log = @ \o <<p.ev,
                                   EvWrite("rm", c1.rm_kernel,
                                           c1.rm_kernel + c1.rm_filesz)>>]

bzimage_load_non_real(mm, s) ==
    LET c == s.load_ctx
        p == prep_segment(mm, s.mem, "pm", c.pm_kernel, c.pm_sz, c.pm_sz)
    IN  IF p.rc # "OK"
            THEN [s EXCEPT !.rc = p.rc, !.log = Append(@, p.ev)]
            ELSE [s EXCEPT
                    !.mem = MemWrite(p.mem, c.pm_kernel, c.pm_kernel + c.pm_sz,
                                     SrcImage, c.pm_kernel - c.rm_filesz),
                    !.log = @ \o <<p.ev,
                                   EvWrite("pm", c.pm_kernel,
                                           c.pm_kernel + c.pm_sz)>>]

\* bzhdr->loadflags |= BZI_CAN_USE_HEAP
\* (a variant that adds the flag's value instead of setting its bit)
OrCanUseHeap_Add(loadflags) == (loadflags + BZI_CAN_USE_HEAP) % 256

OrCanUseHeap(loadflags) ==
    IF (loadflags \div BZI_CAN_USE_HEAP) % 2 = 1
        THEN loadflags
        ELSE loadflags + BZI_CAN_USE_HEAP

\* (a variant that sets heap_end_ptr and cmd_line_ptr whatever the version)
bzimage_write_header_AnyVersion(s) ==
    LET c == s.load_ctx
        h == [s.bzhdr EXCEPT
                !.type_of_loader = BZI_LOADER_TYPE_ETHERBOOT,
                !.heap_end_ptr = (c.rm_heap - \h200) % B16,
                !.loadflags = OrCanUseHeap(@),
                !.cmd_line_ptr = c.rm_kernel + c.rm_cmdline]
        hdrLo == c.rm_kernel + BZI_HDR_OFFSET
    IN  [s EXCEPT
            !.bzhdr = h,
            !.mem = MemWrite(@, hdrLo, hdrLo + SizeofBzhdr, SrcHdr(h), hdrLo),
            !.log = Append(@, EvWrite("hdr", hdrLo, hdrLo + SizeofBzhdr))]

bzimage_write_header(s) ==
    LET c == s.load_ctx
        h1 == [s.bzhdr EXCEPT !.type_of_loader = BZI_LOADER_TYPE_ETHERBOOT]
        h2 == IF h1.version >= \h0201
                  THEN [h1 EXCEPT
                          !.heap_end_ptr = (c.rm_heap - \h200) % B16,
                          !.loadflags = OrCanUseHeap(@)]
                  ELSE h1
        new == h2.version >= \h0202
        h3 == IF new
                  THEN [h2 EXCEPT !.cmd_line_ptr = c.rm_kernel + c.rm_cmdline]
                  ELSE [h2 EXCEPT !.setup_move_size = c.rm_memsz % B16]
        sideLo == c.rm_kernel + BZI_CMDLINE_OFFSET
        hdrLo == c.rm_kernel + BZI_HDR_OFFSET
        m1 == IF new
                  THEN s.mem
                  ELSE MemWrite(s.mem, sideLo, sideLo + SizeofBzCmdline,
                                SrcSide(BZI_CMDLINE_MAGIC, c.rm_cmdline % B16),
                                sideLo)
    IN  [s EXCEPT
            !.bzhdr = h3,
            !.mem = MemWrite(m1, hdrLo, hdrLo + SizeofBzhdr, SrcHdr(h3), hdrLo),
            !.log = @ \o (IF new THEN <<>>
                          ELSE <<EvWrite("side", sideLo,
                                         sideLo + SizeofBzCmdline)>>)
                      \o <<EvWrite("hdr", hdrLo, hdrLo + SizeofBzhdr)>>]

\* (a variant that looks at the status of header parsing only after the
\* real-mode portion has been loaded)
bzimage_load_LateHeaderCheck(img, mm, m) ==
    LET h == bzimage_load_header(img)
        s0 == [rc |-> "OK", image |-> img, mem |-> m, log |-> <<>>,
               load_ctx |-> h.load_ctx, bzhdr |-> h.bzhdr]
        s2 == bzimage_load_real(mm, s0)
    IN  IF s2.rc # "OK" THEN s2
        ELSE IF h.rc # "OK" THEN [s2 EXCEPT !.rc = h.rc]
        ELSE
        LET s3 == bzimage_load_non_real(mm, s2)
        IN  IF s3.rc # "OK" THEN s3
            ELSE
            LET s4 == bzimage_write_header(s3)
            IN  [s4 EXCEPT !.image.priv = s4.load_ctx.rm_kernel_seg]

\* (a variant that records the segment in the image's private data before
\* the portions are loaded)
bzimage_load_EarlyPriv(img, mm, m) ==
    LET h == bzimage_load_header(img)
        s0 == [rc |-> "OK", image |-> img, mem |-> m, log |-> <<>>,
               load_ctx |-> h.load_ctx, bzhdr |-> h.bzhdr]
    IN  IF h.rc # "OK" THEN [s0 EXCEPT !.rc = h.rc]
        ELSE
        LET s1 == [s0 EXCEPT !.image.type =
                       IF @ = "none" THEN "bzImage" ELSE @,
                             !.image.priv = h.load_ctx.rm_kernel_seg]
            s2 == bzimage_load_real(mm, s1)
        IN  IF s2.rc # "OK" THEN s2
            ELSE
            LET s3 == bzimage_load_non_real(mm, s2)
            IN  IF s3.rc # "OK" THEN s3 ELSE bzimage_write_header(s3)

\* The whole of bzimage_load: the image (its type and private data), memory,
\* the log of primitive calls and the status returned.
bzimage_load(img, mm, m) ==
    LET h == bzimage_load_header(img)
        s0 == [rc |-> "OK", image |-> img, mem |-> m, log |-> <<>>,
               load_ctx |-> h.load_ctx, bzhdr |-> h.bzhdr]
    IN  IF h.rc # "OK" THEN [s0 EXCEPT !.rc = h.rc]
        ELSE
        LET s1 == [s0 EXCEPT !.image.type =
                       IF @ = "none" THEN "bzImage" ELSE @]
            s2 == bzimage_load_real(mm, s1)
        IN  IF s2.rc # "OK" THEN s2
            ELSE
            LET s3 == bzimage_load_non_real(mm, s2)
            IN  IF s3.rc # "OK" THEN s3
                ELSE
                LET s4 == bzimage_write_header(s3)
                IN  [s4 EXCEPT !.image.priv = s4.load_ctx.rm_kernel_seg]

(***************************************************************************)
(* C strings: a string is a sequence of characters; a pointer into it is   *)
(* an index, Len + 1 pointing at the terminating NUL                       *)
(***************************************************************************)
CharAt(str, i) == IF i <= Len(str) THEN str[i] ELSE NUL

\* the string that the pointer i points at
StrFrom(str, i) == SubSeq(str, i, Len(str))

\* strstr: the index of the first occurrence of needle, 0 when there is none
strstr(str, needle) ==
    LET hits == { i \in 1..Len(str) :
                    /\ i + Len(needle) - 1 <= Len(str)
                    /\ SubSeq(str, i, i + Len(needle) - 1) = needle }
    IN  IF hits = {} THEN 0 ELSE CHOOSE i \in hits : \A j \in hits : i <= j

Digits == <<"0", "1", "2", "3", "4", "5", "6", "7", "8", "9">>
LowerAF == <<"a", "b", "c", "d", "e", "f">>
UpperAF == <<"A", "B", "C", "D", "E", "F">>

\* the value of a character as a digit; 99 for a character that is no digit
\* in any base up to 16
DigitVal(ch) ==
    IF \E d \in 1..10 : Digits[d] = ch
        THEN (CHOOSE d \in 1..10 : Digits[d] = ch) - 1
    ELSE IF \E d \in 1..6 : LowerAF[d] = ch
        THEN (CHOOSE d \in 1..6 : LowerAF[d] = ch) + 9
    ELSE IF \E d \in 1..6 : UpperAF[d] = ch
        THEN (CHOOSE d \in 1..6 : UpperAF[d] = ch) + 9
    ELSE 99

RECURSIVE StrtoulDigits(_, _, _, _)
StrtoulDigits(str, i, base, acc) ==
    IF DigitVal(CharAt(str, i)) >= base
        THEN [val |-> acc, end |-> i]
        ELSE StrtoulDigits(str, i + 1, base,
                 U32(WAdd(WMul(acc, base), W(DigitVal(CharAt(str, i))))))

RECURSIVE SkipSpace(_, _)
SkipSpace(str, i) == IF CharAt(str, i) = " " THEN SkipSpace(str, i + 1) ELSE i

\* strtoul ( str + i - 1, &end, base ): an unsigned long (32 bits) and the
\* index of the first character not consumed
strtoul(str, i, base) ==
    LET p == SkipSpace(str, i)
    IN  IF base # 0 THEN StrtoulDigits(str, p, base, W(0))
        ELSE IF CharAt(str, p) # "0" THEN StrtoulDigits(str, p, 10, W(0))
        ELSE IF CharAt(str, p + 1) \in {"x", "X"}
            THEN StrtoulDigits(str, p + 2, 16, W(0))
        ELSE StrtoulDigits(str, p + 1, 8, W(0))

(***************************************************************************)
(* bzimage_parse_cmdline                                                   *)
(***************************************************************************)
\* (a variant without the fall-through: every unit shifts once)
MemShifts_NoFallThrough(ch) ==
    IF ch \in {"G", "g", "M", "m", "K", "k"} THEN 1 ELSE 0

\* the switch on the character after the number of "mem=": how many times
\* exec_ctx->mem_limit <<= 10 runs (the cases fall through)
MemShifts(ch) ==
    IF ch \in {"G", "g"} THEN 3
    ELSE IF ch \in {"M", "m"} THEN 2
    ELSE IF ch \in {"K", "k"} THEN 1
    ELSE 0

RECURSIVE Shl10(_, _)
Shl10(w, times) == IF times = 0 THEN w ELSE Shl10(WMul(w, 1024), times - 1)

ParseVga(exec_ctx, cmdline) ==
    LET vga == strstr(cmdline, <<"v", "g", "a", "=">>)
        arg == StrFrom(cmdline, vga + 4)
    IN  IF vga = 0 THEN exec_ctx
        ELSE IF arg = <<"n", "o", "r", "m", "a", "l">>
            THEN [exec_ctx EXCEPT !.vid_mode = W(BZI_VID_MODE_NORMAL)]
        ELSE IF arg = <<"e", "x", "t">>
            THEN [exec_ctx EXCEPT !.vid_mode = W(BZI_VID_MODE_EXT)]
        ELSE IF arg = <<"a", "s", "k">>
            THEN [exec_ctx EXCEPT !.vid_mode = W(BZI_VID_MODE_ASK)]
        ELSE [exec_ctx EXCEPT !.vid_mode = strtoul(cmdline, vga + 4, 16).val]

ParseMem(exec_ctx, cmdline) ==
    LET mem_ == strstr(cmdline, <<"m", "e", "m", "=">>)
        n == strtoul(cmdline, mem_ + 4, 0)
    IN  IF mem_ = 0 THEN exec_ctx
        ELSE [exec_ctx EXCEPT
                !.mem_limit = Shl10(n.val, MemShifts(CharAt(cmdline, n.end)))]

bzimage_parse_cmdline(exec_ctx, cmdline) ==
    ParseMem(ParseVga(exec_ctx, cmdline), cmdline)

(***************************************************************************)
(* bzimage_set_cmdline, bzimage_load_initrd, bzimage_exec                  *)
(***************************************************************************)
bzimage_set_cmdline(s, cmdline) ==
    LET len1 == Len(cmdline) + 1
        cmdline_len == IF len1 > BZI_CMDLINE_SIZE THEN BZI_CMDLINE_SIZE
                       ELSE len1
        lo == s.exec_ctx.rm_kernel + s.exec_ctx.rm_cmdline
    IN  [s EXCEPT
            !.mem = MemWrite(@, lo, lo + cmdline_len,
                        SrcStr(SubSeq(Append(cmdline, NUL), 1, cmdline_len)),
                        lo),
            !.log = Append(@, EvWrite("cmdline", lo, lo + cmdline_len))]

\* a test that leaves out the case of a range ending at the limit
FitsUnder_Strict(start, len, mem_limit) ==
    WLt(U32(WAdd(W(start), W(len))), mem_limit)

\* ( start + initrd->len ) <= exec_ctx->mem_limit: the sum is a 32-bit
\* physaddr_t, the limit a uint64_t
FitsUnder(start, len, mem_limit) ==
    WLe(U32(WAdd(W(start), W(len))), mem_limit)

\* a bound that leaves out the length of the kernel image
BelowKernelBound_NoLen(start, img) == start <= BZI_LOAD_HIGH_ADDR

\* (a test that stops the search only at address 0)
BelowKernelBound_OnlyZero(start, img) == start <= 0

\* start <= ( BZI_LOAD_HIGH_ADDR + image->len )
BelowKernelBound(start, img) == start <= BZI_LOAD_HIGH_ADDR + img.len

\* a search that copies to the first candidate that fits, whatever
\* prep_segment returned for it
RECURSIVE InitrdSearch_IgnorePrep(_, _, _, _, _)
InitrdSearch_IgnorePrep(img, ird, mm, s, start) ==
    IF BelowKernelBound(start, img)
        THEN [s EXCEPT !.rc = "ENOBUFS"]
    ELSE IF ~FitsUnder(start, ird.len, s.exec_ctx.mem_limit)
        THEN InitrdSearch_IgnorePrep(img, ird, mm, s, start - MiB)
    ELSE
        LET p == prep_segment(mm, s.mem, "initrd", start, ird.len, ird.len)
        IN  [s EXCEPT
                !.mem = MemWrite(p.mem, start, start + ird.len,
                                 SrcInitrd, start),
                !.log = @ \o <<p.ev,
                               EvWrite("initrd", start, start + ird.len)>>,
                !.exec_ctx.ramdisk_image = start,
                !.exec_ctx.ramdisk_size = ird.len]

\* The for ( ; ; start -= 0x100000 ) loop, from the candidate start on
RECURSIVE InitrdSearch(_, _, _, _, _)
InitrdSearch(img, ird, mm, s, start) ==
    IF BelowKernelBound(start, img)
        THEN [s EXCEPT !.rc = "ENOBUFS"]
    ELSE IF ~FitsUnder(start, ird.len, s.exec_ctx.mem_limit)
        THEN InitrdSearch(img, ird, mm, s, start - MiB)
    ELSE
        LET p == prep_segment(mm, s.mem, "initrd", start, ird.len, ird.len)
        IN  IF p.rc # "OK"
                THEN InitrdSearch(img, ird, mm,
                                  [s EXCEPT !.log = Append(@, p.ev)],
                                  start - MiB)
                ELSE [s EXCEPT
                        !.mem = MemWrite(p.mem, start, start + ird.len,
                                         SrcInitrd, start),
                        !.log = @ \o <<p.ev,
                                       EvWrite("initrd", start,
                                               start + ird.len)>>,
                        !.exec_ctx.ramdisk_image = start,
                        !.exec_ctx.ramdisk_size = ird.len]

\* a relocator without the test for an initrd that is fine where it is
bzimage_load_initrd_AlwaysSearch(img, ird, mm, s) ==
    InitrdSearch(img, ird, mm, s, ird.start)

bzimage_load_initrd(img, ird, mm, s) ==
    IF FitsUnder(ird.start, ird.len, s.exec_ctx.mem_limit)
        THEN [s EXCEPT !.exec_ctx.ramdisk_image = ird.start,
                       !.exec_ctx.ramdisk_size = ird.len]
        ELSE InitrdSearch(img, ird, mm, s, ird.start)

NoInitrd == [present |-> FALSE, start |-> 0, len |-> 0]

NoCpu == [ds |-> 0, es |-> 0, fs |-> 0, gs |-> 0, ss |-> 0, sp |-> 0,
          cs |-> 0, ip |-> 0]

\* exec_ctx as set up at the start of bzimage_exec from the loaded header
ExecCtxInit(img, bzhdr) ==
    [ZeroExecCtx EXCEPT
        !.rm_kernel_seg = img.priv,
        !.rm_kernel = real_to_user(img.priv, 0),
        !.rm_cmdline = bzhdr.heap_end_ptr + \h200,
        !.rm_heap = bzhdr.heap_end_ptr + \h200,
        !.vid_mode = W(bzhdr.vid_mode),
        !.mem_limit = IF bzhdr.version >= \h0203
                          THEN U32(WAdd(bzhdr.initrd_addr_max, W(1)))
                          ELSE W(BZI_INITRD_MAX + 1)]

\* a far return to the start of the segment, not to the setup code
Handoff_NoDisplacement(exec_ctx) ==
    LET seg == exec_ctx.rm_kernel_seg % B16
    IN  [ds |-> seg, es |-> seg, fs |-> seg, gs |-> seg, ss |-> seg,
         sp |-> exec_ctx.rm_heap % B16, cs |-> seg, ip |-> 0]

\* the registers that the real-mode code sequence loads before lret
Handoff(exec_ctx) ==
    LET seg == exec_ctx.rm_kernel_seg % B16
    IN  [ds |-> seg, es |-> seg, fs |-> seg, gs |-> seg, ss |-> seg,
         sp |-> exec_ctx.rm_heap % B16,
         cs |-> (exec_ctx.rm_kernel_seg + \h20) % B16, ip |-> 0]

\* bzhdr.vid_mode, bzhdr.ramdisk_image and bzhdr.ramdisk_size are set from
\* the execution context; vid_mode is a 16-bit field
ExecHeader(bzhdr, c) ==
    [bzhdr EXCEPT !.vid_mode = c.vid_mode[1],
                  !.ramdisk_image = c.ramdisk_image,
                  !.ramdisk_size = c.ramdisk_size]

\* The header update, shutdown and the jump at the end of bzimage_exec
ExecFinish(s) ==
    LET c == s.exec_ctx
        h == ExecHeader(s.bzhdr, c)
        hdrLo == c.rm_kernel + BZI_HDR_OFFSET
    IN  [s EXCEPT
            !.rc = "NORETURN",
            !.bzhdr = h,
            !.mem = MemWrite(@, hdrLo, hdrLo + SizeofBzhdr, SrcHdr(h), hdrLo),
            !.log = @ \o <<EvWrite("hdr", hdrLo, hdrLo + SizeofBzhdr),
                           EvShutdown, EvJump>>,
            !.cpu = Handoff(c)]

\* (a variant that updates the header in memory before it looks at the
\* status of the initrd step)
bzimage_exec_LateInitrdCheck(img, ird, mm, m) ==
    LET cmdline == IF img.cmdline = NULL THEN <<>> ELSE img.cmdline
        seg == img.priv
        bzhdr == ReadHdr(m, real_to_user(seg, 0) + BZI_HDR_OFFSET, img)
        s0 == [rc |-> "OK", mem |-> m, log |-> <<>>, bzhdr |-> bzhdr,
               exec_ctx |-> ExecCtxInit(img, bzhdr), cpu |-> NoCpu]
        s1 == [s0 EXCEPT
                 !.exec_ctx = bzimage_parse_cmdline(s0.exec_ctx, cmdline)]
        s2 == bzimage_set_cmdline(s1, cmdline)
        s3 == IF ird.present THEN bzimage_load_initrd(img, ird, mm, s2)
              ELSE s2
        f == ExecFinish(s3)
    IN  IF s3.rc # "OK"
            THEN [s3 EXCEPT !.mem = f.mem, !.bzhdr = f.bzhdr,
                            !.log = SubSeq(f.log, 1, Len(f.log) - 2)]
            ELSE f

\* The whole of bzimage_exec.  rc is "NORETURN" when the jump was made.
bzimage_exec(img, ird, mm, m) ==
    LET cmdline == IF img.cmdline = NULL THEN <<>> ELSE img.cmdline
        seg == img.priv
        bzhdr == ReadHdr(m, real_to_user(seg, 0) + BZI_HDR_OFFSET, img)
        s0 == [rc |-> "OK", mem |-> m, log |-> <<>>, bzhdr |-> bzhdr,
               exec_ctx |-> ExecCtxInit(img, bzhdr), cpu |-> NoCpu]
        s1 == [s0 EXCEPT
                 !.exec_ctx = bzimage_parse_cmdline(s0.exec_ctx, cmdline)]
        s2 == bzimage_set_cmdline(s1, cmdline)
        s3 == IF ird.present THEN bzimage_load_initrd(img, ird, mm, s2)
              ELSE s2
    IN  IF s3.rc # "OK" THEN s3 ELSE ExecFinish(s3)

(***************************************************************************)
(* Inputs                                                                  *)
(***************************************************************************)
\* the initrd buffer starts at k MiB (+ an offset), k up to this
MaxStartMiB == 4
\* the characters after "mem=" in the command lines of SpecCmd
MaxTail == 3
\* the longest command line, in characters
MaxCmdline == 256
\* image lengths of SpecHdr lie around the sector counts 0 .. MaxLenSects
MaxLenSects == 6

MkHdr(sig, ver, ss, lf, vm, iam) ==
    [ZeroHdr EXCEPT
        !.setup_sects = ss, !.vid_mode = vm, !.boot_flag = \haa55,
        !.header = sig, !.version = ver, !.loadflags = lf,
        !.setup_move_size = \h8000, !.code32_start = \h100000,
        !.heap_end_ptr = \hde00, !.initrd_addr_max = iam]

MkImage(len, hdr) ==
    [len |-> len, hdr |-> hdr, cmdline |-> NULL, priv |-> 0, type |-> "none"]

Signatures == {BZI_SIGNATURE, "XXXX"}
Versions == {\h01ff, \h0200, \h0201, \h0202, \h0203}
InitrdAddrMaxes ==
    {WHex(\h37ff, \hffff), WHex(\hffff, \hffff), WHex(\h003f, \hffff)}

\* initrd_addr_max is a field of the header from version 2.03 on
Images ==
    UNION { { MkImage(len, MkHdr(sig, ver, ss, lf, \h0317, iam)) :
                len \in {\h100, \h230, \ha00, \h4000, \h180000},
                sig \in Signatures, ss \in {0, 31}, lf \in {0, 1},
                iam \in IF ver >= \h0203 THEN InitrdAddrMaxes ELSE {W(0)} } :
            ver \in Versions }

Region(lo, hi) == [lo |-> lo, hi |-> hi]

MemMaps ==
    { {Region(0, \ha0000), Region(MiB, 64 * MiB)},
      {Region(0, \ha0000), Region(MiB, 3 * MiB), Region(4 * MiB, 64 * MiB)},
      {Region(MiB, 64 * MiB)},
      {Region(0, \ha0000), Region(MiB, MiB + \h80000)} }

\* a command line of n characters, as a tuple
LongLine(n) == SubSeq([i \in 1..n |-> "a"], 1, n)

CmdLines ==
    { <<>>,
      <<"q", "u", "i", "e", "t">>,
      <<"m", "e", "m", "=", "4", "M">>,
      <<"v", "g", "a", "=", "a", "s", "k">>,
      <<"v", "g", "a", "=", "3", "1", "a", " ", "m", "e", "m", "=", "1", "g">> }
    \cup { LongLine(n) : n \in {BZI_CMDLINE_SIZE - 1, MaxCmdline} }

Initrds ==
    { [present |-> TRUE, start |-> k * MiB + off, len |-> len] :
        k \in 1..MaxStartMiB, off \in {0, \h50000},
        len \in {\h80000, \h200000} }

(***************************************************************************)
(* The loader and executor as a state machine                              *)
(***************************************************************************)
NoRet == [fn |-> "none", rc |-> "OK", load_ctx |-> ZeroLoadCtx,
          exec_ctx |-> ZeroExecCtx, bzhdr |-> ZeroHdr]

NoHdrOut == [rc |-> "none", load_ctx |-> ZeroLoadCtx, bzhdr |-> ZeroHdr,
             hdrRead |-> FALSE]

NoCmdOut == [done |-> FALSE, exec_ctx |-> ZeroExecCtx]

\* the search loop of bzimage_load_initrd, not running
NoSearch == [pc |-> "idle", start |-> 0, from |-> 0, len |-> 0,
             img_len |-> 0, mem_limit |-> W(0), failed |-> 0]

PureIdle ==
    /\ hdrIn = MkImage(0, ZeroHdr)
    /\ hdrOut = NoHdrOut
    /\ cmdIn = <<>>
    /\ cmdOut = NoCmdOut
    /\ search = NoSearch

Init ==
    /\ image \in Images
    /\ initrd = NoInitrd
    /\ memmap \in MemMaps
    /\ mem = {}
    /\ memPre = {}
    /\ log = <<>>
    /\ ret = NoRet
    /\ cpu = NoCpu
    /\ state = "Idle"
    /\ PureIdle

Load ==
    /\ state = "Idle"
    /\ LET r == bzimage_load(image, memmap, mem)
       IN  /\ image' = r.image
           /\ mem' = r.mem
           /\ memPre' = mem
           /\ log' = r.log
           /\ ret' = [NoRet EXCEPT !.fn = "load", !.rc = r.rc,
                                   !.load_ctx = r.load_ctx, !.bzhdr = r.bzhdr]
           /\ state' = IF r.rc = "OK" THEN "Loaded" ELSE "Idle"
    /\ UNCHANGED <<initrd, memmap, cpu, hdrIn, hdrOut, cmdIn, cmdOut, search>>

SetCmdline ==
    /\ state = "Loaded"
    /\ image.cmdline = NULL
    /\ \E c \in CmdLines : image' = [image EXCEPT !.cmdline = c]
    /\ UNCHANGED <<initrd, memmap, mem, memPre, log, ret, cpu, state,
                   hdrIn, hdrOut, cmdIn, cmdOut, search>>

\* An initrd image is registered: its file is in memory at initrd->data.
RegisterInitrd ==
    /\ state = "Loaded"
    /\ ~initrd.present
    /\ \E i \in Initrds :
        /\ initrd' = i
        /\ mem' = MemWrite(mem, i.start, i.start + i.len, SrcInitrd, i.start)
    /\ UNCHANGED <<image, memmap, memPre, log, ret, cpu, state,
                   hdrIn, hdrOut, cmdIn, cmdOut, search>>

Exec ==
    /\ state = "Loaded"
    /\ LET r == bzimage_exec(image, initrd, memmap, mem)
       IN  /\ mem' = r.mem
           /\ memPre' = mem
           /\ log' = r.log
           /\ ret' = [ret EXCEPT !.fn = "exec", !.rc = r.rc,
                                  !.exec_ctx = r.exec_ctx, !.bzhdr = r.bzhdr]
           /\ cpu' = r.cpu
           /\ state' = IF r.rc = "NORETURN" THEN "Executing" ELSE "Loaded"
    /\ UNCHANGED <<image, initrd, memmap, hdrIn, hdrOut, cmdIn, cmdOut, search>>

Next == Load \/ SetCmdline \/ RegisterInitrd \/ Exec

Spec == Init /\ [][Next]_vars

(***************************************************************************)
(* bzimage_load_header as a pure function of the image buffer: every       *)
(* setup_sects of the uint8_t field, lengths around the sector boundaries  *)
(***************************************************************************)
HdrLens ==
    {0, BZI_HDR_OFFSET, BZI_HDR_OFFSET + SizeofBzhdr - 1,
     BZI_HDR_OFFSET + SizeofBzhdr, BZI_HDR_OFFSET + SizeofBzhdr + 1}
    \cup { k * 512 + d : k \in 2..MaxLenSects, d \in {-1, 0, 1} }
    \cup { k * 512 + d : k \in {128, 256, 257}, d \in {-1, 0, 1} }

HdrImages ==
    { MkImage(len, MkHdr(sig, ver, ss, 1, \h0317, W(0))) :
        len \in HdrLens, sig \in Signatures,
        ver \in {\h0000, \h01ff, \h0200, \h0203}, ss \in 0..255 }

MainIdle ==
    /\ image = MkImage(0, ZeroHdr)
    /\ initrd = NoInitrd
    /\ memmap = {}
    /\ mem = {}
    /\ memPre = {}
    /\ log = <<>>
    /\ ret = NoRet
    /\ cpu = NoCpu
    /\ state = "Idle"

InitHdr ==
    /\ MainIdle
    /\ hdrIn \in HdrImages
    /\ hdrOut = NoHdrOut
    /\ cmdIn = <<>>
    /\ cmdOut = NoCmdOut
    /\ search = NoSearch

ParseHeader ==
    /\ hdrOut.rc = "none"
    /\ hdrOut' = bzimage_load_header(hdrIn)
    /\ UNCHANGED <<mainVars, hdrIn, cmdIn, cmdOut, search>>

SpecHdr == InitHdr /\ [][ParseHeader]_vars

(***************************************************************************)
(* bzimage_parse_cmdline as a pure function of the command line            *)
(***************************************************************************)
TailChars == {"0", "1", "9", "x", "k", "K", "m", "M", "g", "G", " ", "z"}

Tails == UNION { [1..n -> TailChars] : n \in 0..MaxTail }

CmdInputs ==
    { pre \o <<"m", "e", "m", "=">> \o tail :
        pre \in {<<>>, <<"r", "o", " ">>}, tail \in Tails }
    \cup { <<"m", "e", "=">> \o tail : tail \in Tails }

\* the execution context that bzimage_exec hands to the parser, for a
\* loaded header of version 2.02
CmdCtx ==
    ExecCtxInit([MkImage(\h4000, ZeroHdr) EXCEPT !.priv = \h1000],
                MkHdr(BZI_SIGNATURE, \h0202, 4, 1, \h0317, W(0)))

InitCmd ==
    /\ MainIdle
    /\ hdrIn = MkImage(0, ZeroHdr)
    /\ hdrOut = NoHdrOut
    /\ cmdIn \in CmdInputs
    /\ cmdOut = NoCmdOut
    /\ search = NoSearch

ParseCmdline ==
    /\ ~cmdOut.done
    /\ cmdOut' = [done |-> TRUE,
                  exec_ctx |-> bzimage_parse_cmdline(CmdCtx, cmdIn)]
    /\ UNCHANGED <<mainVars, hdrIn, hdrOut, cmdIn, search>>

SpecCmd == InitCmd /\ [][ParseCmdline]_vars

(***************************************************************************)
(* The search loop of bzimage_load_initrd, one iteration per step, with    *)
(* prep_segment free to fail for any candidate                             *)
(***************************************************************************)
\* the initrd starts in one of the first MaxSearchMiB + 1 MiB of memory
MaxSearchMiB == 6

SearchStarts ==
    { k * MiB + off : k \in 0..MaxSearchMiB, off \in {0, \h50000, \hfffff} }

SearchLens == {1, \h80000, \h200000}

SearchImageLens == {\ha00, \h180000, \h300000}

SearchLimits ==
    {W(0), W(MiB), W(4 * MiB), W(BZI_INITRD_MAX + 1), WHex(\hffff, \hffff)}

\* the loop is entered when the initrd does not fit where it is
InitSearch ==
    /\ MainIdle
    /\ hdrIn = MkImage(0, ZeroHdr)
    /\ hdrOut = NoHdrOut
    /\ cmdIn = <<>>
    /\ cmdOut = NoCmdOut
    /\ \E S \in SearchStarts, L \in SearchLens, K \in SearchImageLens,
          C \in SearchLimits :
           /\ ~FitsUnder(S, L, C)
           /\ search = [pc |-> "loop", start |-> S, from |-> S, len |-> L,
                        img_len |-> K, mem_limit |-> C, failed |-> 0]

SearchBelow == BelowKernelBound(search.start, [len |-> search.img_len])

SearchFits == FitsUnder(search.start, search.len, search.mem_limit)

\* start -= 0x100000 on a 32-bit physaddr_t: below 0 the value wraps
SearchDecrement(failed) ==
    IF search.start >= MiB
        THEN search' = [search EXCEPT !.start = @ - MiB, !.failed = failed]
        ELSE search' = [search EXCEPT !.pc = "wrapped", !.failed = failed]

SearchGiveUp ==
    /\ search.pc = "loop"
    /\ SearchBelow
    /\ search' = [search EXCEPT !.pc = "ENOBUFS"]
    /\ UNCHANGED <<mainVars, hdrIn, hdrOut, cmdIn, cmdOut>>

SearchSkip ==
    /\ search.pc = "loop"
    /\ ~SearchBelow
    /\ ~SearchFits
    /\ SearchDecrement(search.failed)
    /\ UNCHANGED <<mainVars, hdrIn, hdrOut, cmdIn, cmdOut>>

SearchPrepFail ==
    /\ search.pc = "loop"
    /\ ~SearchBelow
    /\ SearchFits
    /\ SearchDecrement(search.failed + 1)
    /\ UNCHANGED <<mainVars, hdrIn, hdrOut, cmdIn, cmdOut>>

SearchAccept ==
    /\ search.pc = "loop"
    /\ ~SearchBelow
    /\ SearchFits
    /\ search' = [search EXCEPT !.pc = "accepted"]
    /\ UNCHANGED <<mainVars, hdrIn, hdrOut, cmdIn, cmdOut>>

NextSearch == SearchGiveUp \/ SearchSkip \/ SearchPrepFail \/ SearchAccept

\* the loop runs on the only thread of control, without preemption
SpecSearch == InitSearch /\ [][NextSearch]_vars /\ WF_vars(NextSearch)

\* ---- load and execute over every value of setup_sects ------------------
\* kernels loaded high, of the two header generations that store the
\* heap top: 2.01 (side-record and setup_move_size) and 2.03 (cmd_line_ptr)
SectsImages ==
    { MkImage(\h180000, MkHdr(BZI_SIGNATURE, ver, ss, 1, \h0317, W(0))) :
        ver \in {\h0201, \h0203}, ss \in 0..255 }

InitSects ==
    /\ image \in SectsImages
    /\ initrd = NoInitrd
    /\ memmap = {Region(0, \ha0000), Region(MiB, 64 * MiB)}
    /\ mem = {}
    /\ memPre = {}
    /\ log = <<>>
    /\ ret = NoRet
    /\ cpu = NoCpu
    /\ state = "Idle"
    /\ PureIdle

NextSects == Load \/ Exec

SpecSects == InitSects /\ [][NextSects]_vars

(***************************************************************************)
(* Properties                                                              *)
(***************************************************************************)
HdrEnd == BZI_HDR_OFFSET + SizeofBzhdr

\* the four ways in which header parsing rejects an image
HeaderRejects(img) ==
    \/ img.len < HdrEnd
    \/ img.hdr.header # BZI_SIGNATURE
    \/ img.hdr.version < \h0200
    \/ (IF img.hdr.setup_sects = 0 THEN 5 ELSE img.hdr.setup_sects + 1) * 512
           > img.len

\* C1: whenever bzimage_load fails inside header parsing (buffer too short
\* for the header, signature mismatch, version below 0x0200, or real-mode
\* size larger than the buffer), it returns an error without having
\* requested any segment preparation and without having written any byte
\* of memory.
C1_HeaderFailureTouchesNothing ==
    (ret.fn = "load" /\ HeaderRejects(image))
        => /\ ret.rc \in {"ENOEXEC", "ENOTSUP"}
           /\ log = <<>>
           /\ mem = memPre
           /\ image.priv = 0

\* a load that was rejected for a truncated setup portion, the last of the
\* header checks
C1_Witness ==
    /\ ret.fn = "load"
    /\ ret.rc = "ENOEXEC"
    /\ image.len >= HdrEnd
    /\ image.hdr.header = BZI_SIGNATURE
    /\ image.hdr.version >= \h0200
    /\ log = <<>>

\* C2: a buffer whose signature differs from BZI_SIGNATURE (or that is too
\* short to hold the header) yields -ENOEXEC whatever the other fields are,
\* and -ENOTSUP is returned exactly when the buffer holds the header, the
\* signature matches and version < 0x0200.
C2_ErrorClassification ==
    hdrOut.rc # "none"
        => /\ (hdrIn.len < HdrEnd \/ hdrIn.hdr.header # BZI_SIGNATURE)
                  => hdrOut.rc = "ENOEXEC"
           /\ hdrOut.rc = "ENOTSUP"
                  <=> /\ hdrIn.len >= HdrEnd
                      /\ hdrIn.hdr.header = BZI_SIGNATURE
                      /\ hdrIn.hdr.version < \h0200

\* a bad signature together with a version below the minimum
C2_Witness ==
    /\ hdrOut.rc = "ENOEXEC"
    /\ hdrIn.len >= HdrEnd
    /\ hdrIn.hdr.header # BZI_SIGNATURE
    /\ hdrIn.hdr.version < \h0200

\* the header is present, signed and of a supported version
C3_Accepted ==
    /\ hdrOut.rc # "none"
    /\ hdrIn.len >= HdrEnd
    /\ hdrIn.hdr.header = BZI_SIGNATURE
    /\ hdrIn.hdr.version >= \h0200

C3_Sized(size) ==
    IF size <= hdrIn.len
        THEN /\ hdrOut.rc = "OK"
             /\ hdrOut.load_ctx.rm_filesz = size
             /\ hdrOut.load_ctx.pm_sz = hdrIn.len - size
        ELSE hdrOut.rc = "ENOEXEC"

\* C3 as stated: the real-mode size is ( max ( setup_sects, 4 ) + 1 ) * 512.
C3_Original ==
    C3_Accepted
        => C3_Sized(((IF hdrIn.hdr.setup_sects > 4
                         THEN hdrIn.hdr.setup_sects ELSE 4) + 1) * 512)

\* C3 (amended): for a header with valid signature and version >= 0x0200 and
\* every setup_sects, the real-mode size is ( setup_sects + 1 ) * 512, with a
\* setup_sects of 0 standing for 4; parsing succeeds when that size is <=
\* the buffer length and fails with -ENOEXEC when it exceeds it.
C3_RealModeSize ==
    C3_Accepted
        => C3_Sized(IF hdrIn.hdr.setup_sects = 0
                        THEN 5 * 512
                        ELSE (hdrIn.hdr.setup_sects + 1) * 512)

\* setup_sects = 1: a two-sector real-mode portion is accepted
C3_Witness ==
    /\ C3_Accepted
    /\ hdrIn.hdr.setup_sects = 1
    /\ hdrIn.len = 1024
    /\ hdrOut.rc = "OK"
    /\ hdrOut.load_ctx.rm_filesz = 1024

\* the command line holds neither a "vga=" nor a "mem=" token
NoTokens(cmdline) ==
    \/ cmdline = NULL
    \/ /\ \A i \in 1..(Len(cmdline) - 3) :
              SubSeq(cmdline, i, i + 3) # <<"v", "g", "a", "=">>
       /\ \A i \in 1..(Len(cmdline) - 3) :
              SubSeq(cmdline, i, i + 3) # <<"m", "e", "m", "=">>

\* C4: executing a loaded image whose command line is absent or holds
\* neither token, with no initrd registered, yields an execution context
\* whose video mode is the vid_mode of the image's header and whose memory
\* ceiling is initrd_addr_max + 1 for version >= 0x0203 and
\* BZI_INITRD_MAX + 1 otherwise.
C4_Original ==
    (ret.fn = "exec" /\ ~initrd.present /\ NoTokens(image.cmdline))
        => /\ ret.exec_ctx.vid_mode = W(image.hdr.vid_mode)
           /\ ret.exec_ctx.mem_limit =
                  IF image.hdr.version >= \h0203
                      THEN WAdd(image.hdr.initrd_addr_max, W(1))
                      ELSE W(BZI_INITRD_MAX + 1)

\* bit i (0 .. 63) of a wide number
WBit(a, i) == (a[(i \div 16) + 1] \div 2^(i % 16)) % 2

\* a << bits, modulo 2^64, bit by bit
WShl(a, bits) ==
    LET bit(i) == IF i < bits THEN 0 ELSE WBit(a, i - bits)
        limb(j) == bit(16 * j) + 2 * bit(16 * j + 1) + 4 * bit(16 * j + 2)
                   + 8 * bit(16 * j + 3) + 16 * bit(16 * j + 4)
                   + 32 * bit(16 * j + 5) + 64 * bit(16 * j + 6)
                   + 128 * bit(16 * j + 7) + 256 * bit(16 * j + 8)
                   + 512 * bit(16 * j + 9) + 1024 * bit(16 * j + 10)
                   + 2048 * bit(16 * j + 11) + 4096 * bit(16 * j + 12)
                   + 8192 * bit(16 * j + 13) + 16384 * bit(16 * j + 14)
                   + 32768 * bit(16 * j + 15)
    IN  <<limb(0), limb(1), limb(2), limb(3)>>

\* the number after the first "mem=" of cmdIn, and the character after it
C5_Number == strtoul(cmdIn, strstr(cmdIn, <<"m", "e", "m", "=">>) + 4, 0)
C5_Suffix == CharAt(cmdIn, C5_Number.end)

\* C5: for the number N parsed after "mem=", the memory ceiling is N << 30
\* for the suffix g/G, N << 20 for m/M, N << 10 for k/K and N for the end of
\* the string, a space or any other character, in 64-bit arithmetic.
C5_MemUnits ==
    (cmdOut.done /\ strstr(cmdIn, <<"m", "e", "m", "=">>) # 0)
        => cmdOut.exec_ctx.mem_limit =
               IF C5_Suffix \in {"g", "G"} THEN WShl(C5_Number.val, 30)
               ELSE IF C5_Suffix \in {"m", "M"} THEN WShl(C5_Number.val, 20)
               ELSE IF C5_Suffix \in {"k", "K"} THEN WShl(C5_Number.val, 10)
               ELSE C5_Number.val

\* "mem=9g" gives 9 * 2^30 = 0x2_4000_0000
C5_Witness ==
    /\ cmdOut.done
    /\ cmdIn = <<"m", "e", "m", "=", "9", "g">>
    /\ cmdOut.exec_ctx.mem_limit = <<0, \h4000, 2, 0>>

\* an execute call with a registered initrd has returned or jumped
InitrdStepDone == ret.fn = "exec" /\ initrd.present

\* S + L <= C for the initrd as registered and the ceiling of the call
InitrdInPlace ==
    WLe(W(initrd.start + initrd.len), ret.exec_ctx.mem_limit)

LogIndices(op, what) ==
    { i \in 1..Len(log) : log[i].op = op /\ log[i].what = what }

\* C6: an initrd at S of length L with S + L <= C is recorded at address S
\* with size L; no segment preparation is requested for it and no byte of
\* it is copied.
C6_InPlaceNoCopy ==
    (InitrdStepDone /\ InitrdInPlace)
        => /\ ret.rc = "NORETURN"
           /\ ret.exec_ctx.ramdisk_image = initrd.start
           /\ ret.exec_ctx.ramdisk_size = initrd.len
           /\ \A i \in 1..Len(log) : log[i].op # "prep"
           /\ LogIndices("write", "initrd") = {}
           /\ MemSame(mem, memPre, initrd.start, initrd.start + initrd.len)

\* a 2 MiB initrd at 4 MiB + 0x50000 under the default ceiling, in a memory
\* map that would have accepted a copy
C6_Witness ==
    /\ InitrdStepDone /\ InitrdInPlace
    /\ initrd.start = 4 * MiB + \h50000
    /\ initrd.len = 2 * MiB
    /\ PrepOk(memmap, initrd.start, initrd.len)
    /\ ret.exec_ctx.ramdisk_image = initrd.start

\* the ranges [a1, a2) and [b1, b2) have no address in common
Disjoint(a1, a2, b1, b2) == a2 <= b1 \/ b2 <= a1

\* a candidate address that lies above the exclusion bound, fits under the
\* ceiling of the call and is accepted by segment preparation
Viable(a) ==
    /\ a > BZI_LOAD_HIGH_ADDR + image.len
    /\ WLe(W(a + initrd.len), ret.exec_ctx.mem_limit)
    /\ PrepOk(memmap, a, initrd.len)

\* the relocator was given an initrd that is not fine in place and succeeded
InitrdRelocated == InitrdStepDone /\ ~InitrdInPlace /\ ret.rc = "NORETURN"

\* C7: when S + L > C and the relocator succeeds, the recorded address S'
\* is below S, is S - k MiB for some k >= 1, has S' + L <= C, does not
\* overlap the kernel, is the highest candidate above the exclusion bound
\* that fits and that segment preparation accepted, and the initrd was
\* copied to S' directly after that successful preparation and not before.
C7_RelocatedBelow ==
    InitrdRelocated
        => LET S == initrd.start
               L == initrd.len
               R == ret.exec_ctx.ramdisk_image
               c == ret.load_ctx
           IN  /\ R < S
               /\ ret.exec_ctx.ramdisk_size = L
               /\ \E k \in 1..(S \div MiB) :
                      /\ R = S - k * MiB
                      /\ \A j \in 0..(k - 1) : ~Viable(S - j * MiB)
               /\ Viable(R)
               /\ Disjoint(R, R + L, BZI_LOAD_HIGH_ADDR,
                           BZI_LOAD_HIGH_ADDR + image.len)
               /\ Disjoint(R, R + L, c.pm_kernel, c.pm_kernel + c.pm_sz)
               /\ \E i \in 2..Len(log) :
                      /\ LogIndices("write", "initrd") = {i}
                      /\ log[i] = EvWrite("initrd", R, R + L)
                      /\ log[i - 1] = EvPrep("initrd", R, R + L, "OK")
               /\ ByteAt(mem, R) = [src |-> SrcInitrd, off |-> 0]
               /\ ByteAt(mem, R + L - 1) = [src |-> SrcInitrd, off |-> L - 1]

\* a 0.5 MiB initrd at 4 MiB under "mem=4M": 3 MiB is not usable memory, the
\* copy goes to 2 MiB after a failed preparation of 3 MiB
C7_Witness ==
    /\ InitrdRelocated
    /\ initrd.start = 4 * MiB
    /\ ret.exec_ctx.mem_limit = W(4 * MiB)
    /\ ret.exec_ctx.ramdisk_image = 2 * MiB
    /\ \E i \in 1..Len(log) :
           log[i] = EvPrep("initrd", 3 * MiB, 3 * MiB + initrd.len, "ERANGE")

\* no candidate S - k MiB, k >= 0, is viable
NoViableCandidate ==
    \A k \in 0..(initrd.start \div MiB) : ~Viable(initrd.start - k * MiB)

\* the relocator fails with ENOBUFS exactly when the initrd is not fine in
\* place and no candidate is viable
ENOBUFS_Exactly ==
    InitrdStepDone
        => (ret.rc = "ENOBUFS" <=> (~InitrdInPlace /\ NoViableCandidate))

\* the bytes of the loaded real-mode segment and of the protected-mode
\* body are those from before the execute call
KernelStateAsBefore ==
    LET c == ret.load_ctx
    IN  /\ MemSame(mem, memPre, c.rm_kernel, c.rm_kernel + c.rm_memsz)
        /\ MemSame(mem, memPre, c.pm_kernel, c.pm_kernel + c.pm_sz)

\* C8 as stated: ENOBUFS exactly when nothing is viable, and on ENOBUFS the
\* kernel's loaded state is the same as before the execute call.
C8_Original ==
    /\ ENOBUFS_Exactly
    /\ (InitrdStepDone /\ ret.rc = "ENOBUFS") => KernelStateAsBefore

\* where the execute call copies the command line
CmdlineLo == ret.exec_ctx.rm_kernel + ret.exec_ctx.rm_cmdline

\* C8: the relocator fails with ENOBUFS exactly when the in-place test
\* fails and no candidate S - k MiB above the exclusion bound both fits
\* under the ceiling and is accepted by segment preparation; when it
\* fails, the call has requested only preparations that failed and has
\* written only the command line, so that every byte outside the
\* BZI_CMDLINE_SIZE bytes at the command-line offset is the same as before
\* the execute call.
C8_OutOfMemory ==
    /\ ENOBUFS_Exactly
    /\ (InitrdStepDone /\ ret.rc = "ENOBUFS")
        => /\ \A i \in 1..Len(log) :
                  \/ log[i].op = "prep" /\ log[i].rc # "OK"
                  \/ /\ log[i].op = "write" /\ log[i].what = "cmdline"
                     /\ CmdlineLo <= log[i].lo
                     /\ log[i].hi <= CmdlineLo + BZI_CMDLINE_SIZE
           /\ MemSame(mem, memPre, 0, CmdlineLo)
           /\ MemSame(mem, memPre, CmdlineLo + BZI_CMDLINE_SIZE, 64 * MiB)
           /\ ret.exec_ctx.ramdisk_image = 0
           /\ ret.exec_ctx.ramdisk_size = 0

\* a 0.5 MiB initrd at 4 MiB under "mem=4M" behind a 1.5 MiB kernel: 3 MiB
\* is not usable memory and 2 MiB is under the exclusion bound
C8_Witness ==
    /\ InitrdStepDone
    /\ ret.rc = "ENOBUFS"
    /\ initrd.start = 4 * MiB
    /\ image.len = \h180000
    /\ \E i \in 1..Len(log) :
           log[i] = EvPrep("initrd", 3 * MiB, 3 * MiB + initrd.len, "ERANGE")

\* the initrd step of an execute call succeeded
InitrdStepOk == InitrdStepDone /\ ret.rc = "NORETURN"

RamdiskLo == ret.exec_ctx.ramdisk_image
RamdiskHi == ret.exec_ctx.ramdisk_image + ret.exec_ctx.ramdisk_size

RamdiskUnderCeiling == WLe(W(RamdiskHi), ret.exec_ctx.mem_limit)

\* the recorded range has no byte in common with the protected-mode body
\* or with the real-mode segment that load prepared
RamdiskClearOfKernel ==
    LET c == ret.load_ctx
    IN  /\ Disjoint(RamdiskLo, RamdiskHi, c.pm_kernel, c.pm_kernel + c.pm_sz)
        /\ Disjoint(RamdiskLo, RamdiskHi, c.rm_kernel,
                    c.rm_kernel + c.rm_memsz)

\* C9 as stated: after every successful initrd step, in place or relocated,
\* the recorded ramdisk range lies under the ceiling and is disjoint from
\* the loaded kernel.
C9_Original ==
    InitrdStepOk => (RamdiskUnderCeiling /\ RamdiskClearOfKernel)

\* C9: after every successful initrd step the recorded ramdisk range lies
\* at or under the memory ceiling; a relocated initrd lies above
\* BZI_LOAD_HIGH_ADDR + image length and is disjoint from the
\* protected-mode body and the real-mode segment; an initrd accepted in
\* place is recorded where it was registered, with no test against the
\* kernel's ranges.
C9_RamdiskPlacement ==
    InitrdStepOk
        => /\ RamdiskUnderCeiling
           /\ ret.exec_ctx.ramdisk_size = initrd.len
           /\ IF InitrdInPlace
                  THEN RamdiskLo = initrd.start
                  ELSE /\ RamdiskLo > BZI_LOAD_HIGH_ADDR + image.len
                       /\ RamdiskClearOfKernel

\* a 0.5 MiB initrd at 4 MiB under "mem=4M" is moved to 3 MiB, above a
\* 1.5 MiB kernel loaded at 1 MiB
C9_Witness ==
    /\ InitrdStepOk
    /\ ~InitrdInPlace
    /\ image.len = \h180000
    /\ ret.load_ctx.pm_kernel = BZI_LOAD_HIGH_ADDR
    /\ initrd.start = 4 * MiB
    /\ RamdiskLo = 3 * MiB

\* the call's log ends with one shutdown and then one jump, its only ones
ShutdownThenJump ==
    /\ Len(log) >= 2
    /\ LogIndices("shutdown", "") = {Len(log) - 1}
    /\ LogIndices("jump", "") = {Len(log)}

\* the registers at the jump: the segment base stored at load time in all
\* data and stack segment registers, the heap offset of the execution
\* context in sp, and the far return to ( segment + 0x20 ):0
HandoffRegisters ==
    /\ image.priv = ret.load_ctx.rm_kernel_seg
    /\ \A r \in {"ds", "es", "fs", "gs", "ss"} : cpu[r] = image.priv
    /\ cpu.sp = ret.exec_ctx.rm_heap % B16
    /\ cpu.cs = image.priv + \h20
    /\ cpu.ip = 0

HdrLo == ret.load_ctx.rm_kernel + BZI_HDR_OFFSET

\* C11: when the initrd relocation of an execute call fails, the call
\* returns that error: the header in the loaded real-mode segment has not
\* been rewritten, shutdown has not been invoked, the jump has not been
\* made, and the loader is in Loaded, not in Executing.
C11_FailureReturnsAtOnce ==
    (ret.fn = "exec" /\ ret.rc # "NORETURN")
        => /\ ret.rc = "ENOBUFS"
           /\ initrd.present
           /\ log # <<>>
           /\ log[Len(log)].what \in {"cmdline", "initrd"}
           /\ log[Len(log)].op = "prep" => log[Len(log)].rc # "OK"
           /\ LogIndices("write", "hdr") = {}
           /\ LogIndices("shutdown", "") = {}
           /\ LogIndices("jump", "") = {}
           /\ MemSame(mem, memPre, HdrLo, HdrLo + SizeofBzhdr)
           /\ ReadHdr(mem, HdrLo, image) = ReadHdr(memPre, HdrLo, image)
           /\ cpu = NoCpu
           /\ state = "Loaded"

\* a version 2.03 kernel whose ceiling is 0: no initrd fits anywhere
C11_Witness ==
    /\ ret.fn = "exec"
    /\ ret.rc = "ENOBUFS"
    /\ ret.exec_ctx.mem_limit = W(0)
    /\ initrd.len = 2 * MiB
    /\ state = "Loaded"

\* the command line that the last execute call was given
ExecCmdline == IF image.cmdline = NULL THEN <<>> ELSE image.cmdline

\* C12: the execute-time copy of the command line writes at most
\* BZI_CMDLINE_SIZE bytes from the command-line offset on, and the bytes
\* written include the terminating NUL, for a command line of any length.
C12_Original ==
    ret.fn = "exec"
        => \E i \in 1..Len(log) :
               /\ LogIndices("write", "cmdline") = {i}
               /\ log[i].lo = CmdlineLo
               /\ log[i].hi - log[i].lo <= BZI_CMDLINE_SIZE
               /\ \E a \in log[i].lo .. (log[i].hi - 1) :
                      ByteAt(mem, a) = [src |-> SrcZero, off |-> 0]

\* the write log[i] goes to a range that a successful segment preparation
\* earlier in the same call covers
PreparedInCall(i) ==
    \E j \in 1..(i - 1) :
        /\ log[j].op = "prep" /\ log[j].rc = "OK"
        /\ log[j].lo <= log[i].lo /\ log[i].hi <= log[j].hi

\* the write log[i] goes to a range that load prepared
PreparedByLoad(i) ==
    LET c == ret.load_ctx
    IN  \/ c.rm_kernel <= log[i].lo /\ log[i].hi <= c.rm_kernel + c.rm_memsz
        \/ c.pm_kernel <= log[i].lo /\ log[i].hi <= c.pm_kernel + c.pm_sz

\* C13: in every load or execute call, every write to memory goes to a
\* range that a segment preparation has accepted before: one of that same
\* call or, for the writes of execute into the loaded kernel, one of the
\* load call before it.
C13_Original ==
    ret.fn \in {"load", "exec"}
        => \A i \in 1..Len(log) :
               log[i].op = "write"
                   => \/ PreparedInCall(i)
                      \/ ret.fn = "exec" /\ PreparedByLoad(i)

\* the load-time rewrite of the header applied once more, with the load
\* context and the header that the load call ended with
LoadRewriteAgain ==
    bzimage_write_header([rc |-> "OK", image |-> image, mem |-> mem,
                          log |-> <<>>, load_ctx |-> ret.load_ctx,
                          bzhdr |-> ret.bzhdr])

\* the execute-time rewrite applied once more, with the execution context
\* and the header that the execute call ended with
ExecRewriteAgain ==
    MemWrite(mem, HdrLo, HdrLo + SizeofBzhdr,
             SrcHdr(ExecHeader(ret.bzhdr, ret.exec_ctx)), HdrLo)

\* C14: rewriting the header a second time with the same context leaves
\* the header bytes in the loaded real-mode segment as they are after the
\* first rewrite, for the load-time rewrite (with its side-record) and for
\* the execute-time rewrite.
C14_RewriteIdempotent ==
    /\ (ret.fn = "load" /\ ret.rc = "OK")
        => /\ LoadRewriteAgain.bzhdr = ret.bzhdr
           /\ ReadHdr(mem, HdrLo, image) = ret.bzhdr
           /\ MemSame(LoadRewriteAgain.mem, mem, ret.load_ctx.rm_kernel,
                      ret.load_ctx.rm_kernel + ret.load_ctx.rm_memsz)
    /\ (ret.fn = "exec" /\ ret.rc = "NORETURN")
        => /\ ExecHeader(ret.bzhdr, ret.exec_ctx) = ret.bzhdr
           /\ ReadHdr(mem, HdrLo, image) = ret.bzhdr
           /\ MemSame(ExecRewriteAgain, mem, ret.load_ctx.rm_kernel,
                      ret.load_ctx.rm_kernel + ret.load_ctx.rm_memsz)

\* a version 2.03 kernel after load and execute: the jump with an initrd
\* relocated to 3 MiB and "vga=ask", both rewrites having been applied
C14_Witness ==
    /\ ret.fn = "exec" /\ ret.rc = "NORETURN"
    /\ ret.bzhdr.type_of_loader = BZI_LOADER_TYPE_ETHERBOOT
    /\ ret.bzhdr.loadflags = BZI_CAN_USE_HEAP + BZI_LOAD_HIGH
    /\ ret.bzhdr.vid_mode = BZI_VID_MODE_ASK
    /\ ret.bzhdr.ramdisk_image = 3 * MiB
    /\ InitrdRelocated

\* the header that a successful load leaves in the real-mode segment, as
\* the decoded header f of the image with the fields that load sets
LoadedHeader(f, c) ==
    [f EXCEPT
        !.type_of_loader = BZI_LOADER_TYPE_ETHERBOOT,
        !.heap_end_ptr = IF f.version >= \h0201
                             THEN (c.rm_heap - \h200) % B16 ELSE @,
        !.loadflags = IF f.version >= \h0201
                              /\ (@ \div BZI_CAN_USE_HEAP) % 2 = 0
                          THEN @ + BZI_CAN_USE_HEAP ELSE @,
        !.cmd_line_ptr = IF f.version >= \h0202
                             THEN c.rm_kernel + c.rm_cmdline ELSE @,
        !.setup_move_size = IF f.version >= \h0202
                                THEN @ ELSE c.rm_memsz % B16]

\* C15: after a successful load the header in the real-mode segment is the
\* header decoded from the image except for type_of_loader (the loader's
\* tag), heap_end_ptr and the CAN_USE_HEAP bit (version >= 0x0201 only),
\* and cmd_line_ptr (version >= 0x0202 only) or else setup_move_size with a
\* magic + offset side-record written at BZI_CMDLINE_OFFSET.
C15_LoadedHeaderFields ==
    (ret.fn = "load" /\ ret.rc = "OK")
        => LET c == ret.load_ctx
               sideLo == c.rm_kernel + BZI_CMDLINE_OFFSET
           IN  /\ ReadHdr(mem, HdrLo, image) = LoadedHeader(image.hdr, c)
               /\ ret.bzhdr = LoadedHeader(image.hdr, c)
               /\ c.rm_cmdline = c.rm_memsz - BZI_CMDLINE_SIZE
               /\ IF image.hdr.version >= \h0202
                      THEN LogIndices("write", "side") = {}
                      ELSE /\ \E i \in 1..Len(log) :
                                  log[i] = EvWrite("side", sideLo,
                                               sideLo + SizeofBzCmdline)
                           /\ ByteAt(mem, sideLo) =
                                  [src |-> SrcSide(BZI_CMDLINE_MAGIC,
                                                   c.rm_cmdline % B16),
                                   off |-> 0]

\* a version 2.01 kernel with 31 setup sectors, loaded high: heap_end_ptr
\* 0x4e00, setup_move_size 0x5100 and the side-record are written
C15_Witness ==
    /\ ret.fn = "load" /\ ret.rc = "OK"
    /\ image.hdr.version = \h0201
    /\ image.hdr.loadflags = BZI_LOAD_HIGH
    /\ ReadHdr(mem, HdrLo, image).heap_end_ptr = \h4e00
    /\ ReadHdr(mem, HdrLo, image).setup_move_size = \h5100
    /\ ReadHdr(mem, HdrLo, image).cmd_line_ptr = 0
    /\ LogIndices("write", "side") # {}

\* C16: when segment preparation fails for the real-mode or the
\* protected-mode portion, load returns that error at once: the failed
\* preparation is the call's last step, the portion whose preparation
\* failed is not copied (the only bytes written are those of the
\* real-mode segment, when it was the protected-mode preparation that
\* failed), the header is not written back and the image's private data
\* is left as it was.  The private data holds the
\* segment only after a load that succeeded, whose last write is the
\* header's.
C16_PrepFailureStopsLoad ==
    /\ (ret.fn = "load" /\ ret.rc \notin {"OK", "ENOEXEC", "ENOTSUP"})
        => LET last == log[Len(log)]
           IN  /\ ret.rc = "ERANGE"
               /\ Len(log) \in {1, 3}
               /\ last.op = "prep" /\ last.rc = "ERANGE"
               /\ last.what = IF Len(log) = 1 THEN "rm" ELSE "pm"
               /\ \A i \in 1..Len(log) :
                      log[i].op = "prep" => (log[i].rc = "OK" <=> i < Len(log))
               /\ Len(log) = 1 => mem = memPre
               /\ MemSame(mem, memPre, 0, ret.load_ctx.rm_kernel)
               /\ MemSame(mem, memPre,
                          ret.load_ctx.rm_kernel + ret.load_ctx.rm_memsz,
                          64 * MiB)
               /\ LogIndices("write", last.what) = {}
               /\ LogIndices("write", "hdr") = {}
               /\ LogIndices("write", "side") = {}
               /\ image.priv = 0
               /\ state = "Idle"
    /\ image.priv # 0
        => /\ state # "Idle"
           /\ image.priv = ret.load_ctx.rm_kernel_seg
    /\ (ret.fn = "load" /\ ret.rc = "OK")
        => /\ image.priv = ret.load_ctx.rm_kernel_seg
           /\ log[Len(log)] = EvWrite("hdr", HdrLo, HdrLo + SizeofBzhdr)
           /\ LogIndices("write", "rm") # {}
           /\ LogIndices("write", "pm") # {}

\* a 1.5 MiB kernel, loaded high into a memory map with 0.5 MiB at 1 MiB:
\* the real-mode portion is copied, the protected-mode preparation fails
C16_Witness ==
    /\ ret.fn = "load" /\ ret.rc = "ERANGE"
    /\ Len(log) = 3
    /\ log[2] = EvWrite("rm", ret.load_ctx.rm_kernel,
                        ret.load_ctx.rm_kernel + ret.load_ctx.rm_filesz)
    /\ log[3].what = "pm"
    /\ log[3].lo = BZI_LOAD_HIGH_ADDR
    /\ image.priv = 0

\* C17: the search loop terminates, with an accepted candidate or with
\* ENOBUFS, whatever the initrd's location and length, the ceiling, the
\* kernel's length and the candidates for which segment preparation fails,
\* and the candidate address never wraps below zero.
C17_SearchTerminates ==
    /\ [](search.pc # "wrapped")
    /\ <>(search.pc \in {"accepted", "ENOBUFS"})

\* a candidate accepted after two failed preparations
C17_Witness ==
    /\ search.pc = "accepted"
    /\ search.failed = 2
    /\ search.start < search.from

\* the command-line location that load advertised to the kernel:
\* cmd_line_ptr from version 2.02 on, the offset of the side-record before
AdvertisedCmdline ==
    IF ret.bzhdr.version >= \h0202
        THEN ret.bzhdr.cmd_line_ptr
        ELSE ret.load_ctx.rm_kernel
             + ByteAt(mem, ret.load_ctx.rm_kernel + BZI_CMDLINE_OFFSET).src.side[2]

\* C18: for every version >= 0x0200 the heap-top and command-line offsets
\* that execute derives from the loaded header equal those that load
\* reserved, the command line is written inside the BZI_CMDLINE_SIZE bytes
\* that load reserved, and at the location that load advertised.
C18_Original ==
    ret.fn = "exec"
        => /\ ret.exec_ctx.rm_heap = ret.load_ctx.rm_heap
           /\ ret.exec_ctx.rm_cmdline = ret.load_ctx.rm_cmdline
           /\ \A i \in LogIndices("write", "cmdline") :
                  /\ log[i].lo = ret.load_ctx.rm_kernel + ret.load_ctx.rm_cmdline
                  /\ log[i].hi <= log[i].lo + BZI_CMDLINE_SIZE
                  /\ log[i].lo = AdvertisedCmdline

\* C19: for every accepted header, whatever its setup_sects, the heap top
\* and the end of the command-line reservation fit in 16 bits, so that
\* heap_end_ptr, the offset in the side-record, setup_move_size and sp hold
\* the offsets that load computed, without truncation.
C19_Original ==
    (ret.fn \in {"load", "exec"} /\ state # "Idle")
        => /\ ret.load_ctx.rm_heap < B16
           /\ ret.load_ctx.rm_memsz <= B16
           /\ ReadHdr(mem, HdrLo, image).heap_end_ptr = ret.load_ctx.rm_heap - \h200
           /\ ret.bzhdr.version < \h0202
                  => /\ ReadHdr(mem, HdrLo, image).setup_move_size
                            = ret.load_ctx.rm_memsz
                     /\ ByteAt(mem, ret.load_ctx.rm_kernel
                                    + BZI_CMDLINE_OFFSET).src.side[2]
                            = ret.load_ctx.rm_cmdline
           /\ ret.fn = "exec" => cpu.sp = ret.load_ctx.rm_heap

\* the real-mode portion as copied: every byte of its first and last
\* sector positions still comes from the same offset of the image file
RealModeIntact ==
    LET c == ret.load_ctx
    IN  \A a \in {c.rm_kernel, c.rm_kernel + c.rm_filesz - 1} :
            /\ ByteAt(mem, a).src.kind = "image"
            /\ ByteAt(mem, a).off = a - c.rm_kernel

\* C20: for both values of the load-high flag the destination of the
\* real-mode portion and that of the protected-mode portion are disjoint,
\* so preparing and copying the protected-mode portion leaves the
\* real-mode portion already copied as it was.
C20_Original ==
    (ret.fn = "load" /\ ret.rc = "OK")
        => LET c == ret.load_ctx
           IN  /\ Disjoint(c.rm_kernel, c.rm_kernel + c.rm_memsz,
                           c.pm_kernel, c.pm_kernel + c.pm_sz)
               /\ RealModeIntact

====
